---- MODULE Spec2Model ----
(***************************************************************************)
(* Model of src/connection.go (package apns): one APNSConnection with its  *)
(* two goroutines (closeListener, sendListener), the goroutine that        *)
(* delivers the ConnectionClose, and a caller that submits payloads and    *)
(* may call Disconnect().                                                  *)
(*                                                                         *)
(* Byte strings are modelled by their layout: a byte buffer is a sequence  *)
(* of fields (an envelope header, or an item with the value of each of its *)
(* fixed-width fields and the byte count of its variable-width ones); its  *)
(* length in bytes is computed from the fields (BufLen).  A payload is     *)
(* referred to by its position in payloads (the caller's objects): the     *)
(* code keeps *Payload pointers, and bufferPayload writes through them.    *)
(***************************************************************************)
EXTENDS Integers, Sequences, FiniteSets, TLC

\* ------------------------------------------------------------------ bounds
\* Most payloads the caller submits.
MaxSubmit == 2
\* Largest replay capacity passed to socketAPNSConnectionBufSize.
MaxCap == 2
\* The timer fires only while fewer than MaxWrites frames are on the wire.
MaxWrites == 1
\* Most calls of Disconnect() by the caller.
MaxDisconnects == 1
\* Width of payloadIdCounter in the model (uint32 in the code; TLC's integers
\* are 32-bit signed, so the counter is scaled to IdBits bits).
IdBits == 4

\* Payloads submitted in the runs of ReplaySpec, and its largest capacity.
MaxReplaySubmit == 3
\* Byte length of the over-long device token the caller may submit.
HugeTokenBytes == 65536

\* ------------------------------------------------------- program constants
TCP_FRAME_MAX == 65535
\* Byte length of an APNs device token, as bufferPayload assumes it.
TokenBytes == 32
\* Limit passed to marshalAlertBodyPayload.
MaxPayloadBytes == 256
\* ErrorCode of the AppleError made when the read fails.
ShutdownCode == 10
\* Size of the envelope header: frame type (1) and frame length (4).
HeaderBytes == 5

IdModulus == 2 ^ IdBits

Tasks == {"sendListener", "caller"}

None == <<>>

\* ---------------------------------------------------------------- payloads
\* A Payload as far as this file reads it: Token (a string: its length and
\* whether every character is a hex digit), the size of its marshaled alert
\* body, ExpirationTime and Priority.
Payload(tokenLen, tokenHex, bodyLen, expiration, priority) ==
    [Token |-> [len |-> tokenLen, hex |-> tokenHex],
     BodyLen |-> bodyLen,
     ExpirationTime |-> expiration,
     Priority |-> priority]

\* The payloads the caller submits.
PayloadInputs ==
    { Payload(2 * TokenBytes, TRUE, 20, 0, 10),
      Payload(2 * TokenBytes, TRUE, MaxPayloadBytes, 1, 7),
      Payload(2 * HugeTokenBytes, TRUE, 0, 0, 5),
      Payload(2 * TokenBytes - 1, TRUE, 20, 0, 10),
      Payload(2 * TokenBytes, TRUE, MaxPayloadBytes + 1, 0, 10) }

\* The 6-byte responses the peer may write: INVALID_TOKEN for each id, and a
\* code the table does not list.
PeerResponses ==
    { [command |-> 8, errorCode |-> 8, notificationId |-> id] :
          id \in 0 .. MaxSubmit }
    \cup { [command |-> 8, errorCode |-> 42, notificationId |-> 1] }

\* hex.DecodeString: an error for an odd length or a non-hex character,
\* otherwise one byte per two characters.
DecodeString(tok) ==
    IF tok.hex /\ tok.len % 2 = 0
    THEN [err |-> FALSE, n |-> tok.len \div 2]
    ELSE [err |-> TRUE, n |-> 0]

\* Payload.marshalAlertBodyPayload(maxLen): the marshaled body, or an error
\* when it does not fit maxLen bytes.
marshalAlertBodyPayload(p, maxLen) ==
    IF p.BodyLen > maxLen
    THEN [err |-> TRUE, n |-> 0]
    ELSE [err |-> FALSE, n |-> p.BodyLen]

APPLE_PUSH_RESPONSES(code) ==
    CASE code = 0 -> "NO_ERRORS"
      [] code = 1 -> "PROCESSING_ERROR"
      [] code = 2 -> "MISSING_DEVICE_TOKEN"
      [] code = 3 -> "MISSING_TOPIC"
      [] code = 4 -> "MISSING_PAYLOAD"
      [] code = 5 -> "INVALID_TOKEN_SIZE"
      [] code = 6 -> "INVALID_TOPIC_SIZE"
      [] code = 7 -> "INVALID_PAYLOAD_SIZE"
      [] code = 8 -> "INVALID_TOKEN"
      [] code = 10 -> "SHUTDOWN"
      [] code = 255 -> "UNKNOWN"
      [] OTHER -> ""

\* ------------------------------------------------------------ byte buffers
Header == [kind |-> "hdr", frameType |-> 2, frameLength |-> 0]

FieldLen(f) ==
    IF f.kind = "hdr"
    THEN HeaderBytes
    ELSE 1 + 2 + f.token + f.payloadBytes + 4 + 4 + 1

RECURSIVE BufLen(_)
BufLen(buf) ==
    IF buf = <<>> THEN 0 ELSE FieldLen(Head(buf)) + BufLen(Tail(buf))

\* The item bufferPayload writes into itemBuffer for one idPayload.
EncodeItem(p, id, tokenBytes, payloadBytes) ==
    [kind |-> "item",
     localId |-> 0,
     itemLength |-> (TokenBytes + payloadBytes + 4 + 4 + 1) % 65536,
     token |-> tokenBytes,
     payloadBytes |-> payloadBytes,
     Id |-> id,
     ExpirationTime |-> p.ExpirationTime,
     Priority |-> IF p.Priority # 10 /\ p.Priority # 5 THEN 5 ELSE p.Priority]

\* ------------------------------------------------------------ replay buffer
\* Mutant: the counter is incremented and 0 is not skipped.
nextPayloadId_NoSkip(counter) == (counter + 1) % IdModulus

nextPayloadId(counter) ==
    LET n == (counter + 1) % IdModulus
    IN IF n = 0 THEN 1 ELSE n

\* Mutant: the front entry, the one just pushed, is dropped when the list is
\* over capacity.
PushFrontEvict_DropsFront(buf, obj, size) ==
    LET pushed == <<obj>> \o buf
    IN IF Len(pushed) > size
       THEN Tail(pushed)
       ELSE pushed

\* PushFront, then drop the back entry when the list is over capacity.
PushFrontEvict(buf, obj, size) ==
    LET pushed == <<obj>> \o buf
    IN IF Len(pushed) > size
       THEN SubSeq(pushed, 1, Len(pushed) - 1)
       ELSE pushed

\* The scan of the replay buffer from the front (newest): payloads are pushed
\* on the front of unsent until the entry with the error's id is met.
RECURSIVE GatherFrom(_, _, _, _)
GatherFrom(buf, i, messageId, unsent) ==
    IF i > Len(buf)
    THEN [unsent |-> unsent, errorPayload |-> None]
    ELSE IF messageId # 0 /\ buf[i].Id = messageId
         THEN [unsent |-> unsent, errorPayload |-> <<buf[i].Payload>>]
         ELSE GatherFrom(buf, i + 1, messageId, <<buf[i].Payload>> \o unsent)

\* Mutant: the payload is pushed on unsent before its id is compared, so the
\* error payload is reported unsent too.
RECURSIVE GatherPushFirst(_, _, _, _)
GatherPushFirst(buf, i, messageId, unsent) ==
    IF i > Len(buf)
    THEN [unsent |-> unsent, errorPayload |-> None]
    ELSE IF messageId # 0 /\ buf[i].Id = messageId
         THEN [unsent |-> <<buf[i].Payload>> \o unsent,
               errorPayload |-> <<buf[i].Payload>>]
         ELSE GatherPushFirst(buf, i + 1, messageId,
                              <<buf[i].Payload>> \o unsent)

GatherUnsent_PushBeforeMatch(buf, messageId) ==
    GatherPushFirst(buf, 1, messageId, <<>>)

\* Mutant: PushBack instead of PushFront, so unsent is newest first.
RECURSIVE GatherPushBack(_, _, _, _)
GatherPushBack(buf, i, messageId, unsent) ==
    IF i > Len(buf)
    THEN [unsent |-> unsent, errorPayload |-> None]
    ELSE IF messageId # 0 /\ buf[i].Id = messageId
         THEN [unsent |-> unsent, errorPayload |-> <<buf[i].Payload>>]
         ELSE GatherPushBack(buf, i + 1, messageId,
                             Append(unsent, buf[i].Payload))

GatherUnsent_PushBack(buf, messageId) ==
    GatherPushBack(buf, 1, messageId, <<>>)

GatherUnsent(buf, messageId) == GatherFrom(buf, 1, messageId, <<>>)

MakeConnectionClose(buf, err) ==
    LET g == GatherUnsent(buf, err.MessageId)
    IN [Error |-> err,
        UnsentPayloads |-> g.unsent,
        ErrorPayload |-> g.errorPayload,
        UnsentPayloadBufferOverflow |->
            (Len(g.unsent) > 0 /\ g.errorPayload = None)]

\* ------------------------------------------------------------------- state
VARIABLES
    inFlightPayloadBufferSize,  \* capacity of the replay buffer
    inFlightPayloadBuffer,      \* idPayloads, newest first
    inFlightByteBuffer,         \* the frame buffer
    inFlightId,                 \* uint8 local id of the last item
    inFlightBufferLock,         \* "free", or the task holding the mutex
    payloadIdCounter,
    payloads,                   \* the caller's Payload objects, in submission order
    idPayloadObj,               \* sendListener: the idPayload being buffered
    itemBuffer,                 \* bufferPayload: the encoded item
    timeoutTimer,               \* "long" or "short": the duration last armed
    pc,                         \* per task: where it is
    ret,                        \* per task: where flushBufferToSocket returns to
    disconnects,                \* calls of Disconnect() by the caller
    socketClosed,               \* socket.Close() was called
    transportFailed,            \* the stream broke: reads and writes fail
    peerReply,                  \* the 6-byte response the peer wrote, if any
    wire,                       \* the buffers written to the socket
    clPc,                       \* closeListener: "read", "send", "done"
    errCloseChannel,            \* the AppleError closeListener is sending
    appleError,                 \* sendListener: the AppleError received
    closerPc,                   \* the CloseChannel goroutine: "none", "send", "close", "done"
    connectionClose,            \* the ConnectionClose it sends
    delivered                   \* values the caller received on CloseChannel

vars == <<inFlightPayloadBufferSize, inFlightPayloadBuffer, inFlightByteBuffer,
          inFlightId, inFlightBufferLock, payloadIdCounter, payloads,
          idPayloadObj, itemBuffer, timeoutTimer, pc, ret, disconnects,
          socketClosed, transportFailed, peerReply, wire, clPc,
          errCloseChannel, appleError, closerPc, connectionClose, delivered>>

replayVars == <<inFlightPayloadBufferSize, inFlightPayloadBuffer,
                payloadIdCounter>>
frameVars == <<inFlightByteBuffer, inFlightId>>
netVars == <<socketClosed, transportFailed, peerReply, wire>>
detectorVars == <<clPc, errCloseChannel>>
closeVars == <<appleError, closerPc, connectionClose, delivered>>

\* socketAPNSConnectionBufSize, but for the capacity (lines 79, 81-91).
Fresh ==
    /\ inFlightPayloadBuffer = <<>>
    /\ inFlightByteBuffer = <<>>
    /\ inFlightId = 0
    /\ inFlightBufferLock = "free"
    /\ payloadIdCounter = 0
    /\ payloads = <<>>
    /\ idPayloadObj = None
    /\ itemBuffer = None
    /\ timeoutTimer = "long"
    /\ pc = [t \in Tasks |-> IF t = "sendListener" THEN "select" ELSE "idle"]
    /\ ret = [t \in Tasks |-> "none"]
    /\ disconnects = 0
    /\ socketClosed = FALSE
    /\ transportFailed = FALSE
    /\ peerReply = None
    /\ wire = <<>>
    /\ clPc = "read"
    /\ errCloseChannel = None
    /\ appleError = None
    /\ closerPc = "none"
    /\ connectionClose = None
    /\ delivered = <<>>

\* socketAPNSConnectionBufSize
Init ==
    /\ inFlightPayloadBufferSize \in 0 .. MaxCap
    /\ Fresh

\* ------------------------------------------------------------ sendListener
SL == "sendListener"

Goto(t, label) == pc' = [pc EXCEPT ![t] = label]

\* flushBufferToSocket returns to its caller; after the timer's flush, line
\* 167 arms the long timeout.
Return(t) ==
    /\ ret' = [ret EXCEPT ![t] = "none"]
    /\ IF ret[t] = "timer"
       THEN /\ Goto(t, "select")
            /\ timeoutTimer' = "long"
       ELSE /\ Goto(t, ret[t])
            /\ UNCHANGED timeoutTimer

\* lines 140-157: a payload is received from SendChannel, given the next id,
\* pushed on the front of the replay buffer, and the back entry is removed
\* when the buffer is over capacity.
ReceiveWithin(p, limit) ==
    /\ pc[SL] = "select"
    /\ Len(payloads) < limit
    /\ LET id == nextPayloadId(payloadIdCounter)
           obj == [Payload |-> Len(payloads) + 1, Id |-> id]
       IN /\ payloadIdCounter' = id
          /\ idPayloadObj' = <<obj>>
          /\ inFlightPayloadBuffer' =
                 PushFrontEvict(inFlightPayloadBuffer, obj,
                                inFlightPayloadBufferSize)
    /\ UNCHANGED <<inFlightPayloadBufferSize, frameVars, inFlightBufferLock,
                   timeoutTimer, ret, disconnects, netVars, detectorVars,
                   closeVars>>

\* The same, for at most MaxSubmit payloads.
Receive(p) == ReceiveWithin(p, MaxSubmit)

\* lines 140-157, 209-214: the token of the payload received does not decode;
\* bufferPayload calls Disconnect.
SubmitTokenError(p) ==
    /\ Receive(p)
    /\ DecodeString(p.Token).err
    /\ payloads' = Append(payloads, p)
    /\ itemBuffer' = None
    /\ Goto(SL, "dc_lock")

\* lines 140-157, 209-220: the body of the payload received does not marshal;
\* bufferPayload calls Disconnect.
SubmitMarshalError(p) ==
    /\ Receive(p)
    /\ ~DecodeString(p.Token).err
    /\ marshalAlertBodyPayload(p, MaxPayloadBytes).err
    /\ payloads' = Append(payloads, p)
    /\ itemBuffer' = None
    /\ Goto(SL, "dc_lock")

\* The Payload after lines 231-233: a Priority other than 10 and 5 is set to 5.
NormalizePriority(p) ==
    IF p.Priority # 10 /\ p.Priority # 5
    THEN [p EXCEPT !.Priority = 5]
    ELSE p

\* lines 140-157, 209-234: the payload received is encoded into itemBuffer,
\* and its Priority normalized in the caller's Payload.
SubmitWithin(p, limit) ==
    /\ ReceiveWithin(p, limit)
    /\ LET token == DecodeString(p.Token)
           payloadBytes == marshalAlertBodyPayload(p, MaxPayloadBytes)
       IN /\ ~token.err
          /\ ~payloadBytes.err
          /\ itemBuffer' =
                 <<EncodeItem(p, nextPayloadId(payloadIdCounter), token.n,
                              payloadBytes.n)>>
          /\ payloads' = Append(payloads, NormalizePriority(p))
    /\ Goto(SL, "bp_lock")

\* The same, for at most MaxSubmit payloads.
Submit(p) == SubmitWithin(p, MaxSubmit)

\* lines 141-143: nil is received from SendChannel (the caller closed it, or
\* sent nil): sendListener returns.
ReceiveNil ==
    /\ pc[SL] = "select"
    /\ Goto(SL, "returned")
    /\ UNCHANGED <<replayVars, frameVars, inFlightBufferLock, payloads,
                   idPayloadObj, itemBuffer, timeoutTimer, ret, disconnects,
                   netVars, detectorVars, closeVars>>

Overflows(buf, item) == BufLen(buf) + FieldLen(item) > TCP_FRAME_MAX

\* The item with its first byte set to the local id (lines 256-257).
WithLocalId(item, id) == [item EXCEPT !.localId = id]

\* lines 238-244: the lock is taken; the item does not fit, and
\* flushBufferToSocket is called.
BufferPayloadOverflow ==
    /\ pc[SL] = "bp_lock"
    /\ inFlightBufferLock = "free"
    /\ Overflows(inFlightByteBuffer, itemBuffer[1])
    /\ inFlightBufferLock' = SL
    /\ Goto(SL, "flush")
    /\ ret' = [ret EXCEPT ![SL] = "bp_reset"]
    /\ UNCHANGED <<replayVars, frameVars, payloads, idPayloadObj, itemBuffer,
                   timeoutTimer, disconnects, netVars, detectorVars,
                   closeVars>>

\* lines 238-242, 247-257: the lock is taken; the item fits.  Into an empty
\* buffer the header is written and inFlightId set to 0, otherwise inFlightId
\* is incremented.
BufferPayloadFits ==
    /\ pc[SL] = "bp_lock"
    /\ inFlightBufferLock = "free"
    /\ ~Overflows(inFlightByteBuffer, itemBuffer[1])
    /\ inFlightBufferLock' = SL
    /\ IF BufLen(inFlightByteBuffer) = 0
       THEN /\ inFlightId' = 0
            /\ inFlightByteBuffer' = <<Header>>
       ELSE /\ inFlightId' = (inFlightId + 1) % 256
            /\ UNCHANGED inFlightByteBuffer
    /\ Goto(SL, "bp_append")
    /\ UNCHANGED <<replayVars, payloads, idPayloadObj, itemBuffer,
                   timeoutTimer, ret, disconnects, netVars, detectorVars,
                   closeVars>>

\* lines 245-257, after the flush: the buffer is reset, the header written
\* and inFlightId set to 0.
BufferPayloadReset ==
    /\ pc[SL] = "bp_reset"
    /\ inFlightId' = 0
    /\ inFlightByteBuffer' = <<Header>>
    /\ Goto(SL, "bp_append")
    /\ UNCHANGED <<replayVars, inFlightBufferLock, payloads, idPayloadObj,
                   itemBuffer, timeoutTimer, ret, disconnects, netVars,
                   detectorVars, closeVars>>

\* lines 256-262, then line 162 of sendListener: the item is appended with
\* inFlightId as its local id, the lock released and the short timeout armed.
BufferPayloadAppend ==
    /\ pc[SL] = "bp_append"
    /\ inFlightByteBuffer' =
           Append(inFlightByteBuffer, WithLocalId(itemBuffer[1], inFlightId))
    /\ inFlightBufferLock' = "free"
    /\ idPayloadObj' = None
    /\ itemBuffer' = None
    /\ timeoutTimer' = "short"
    /\ Goto(SL, "select")
    /\ UNCHANGED <<replayVars, inFlightId, payloads, ret, disconnects,
                   netVars, detectorVars, closeVars>>

\* lines 164-166: the timer fires; flushBufferToSocket is called, the lock
\* not taken.
TimerFire ==
    /\ pc[SL] = "select"
    /\ Len(wire) < MaxWrites
    /\ Goto(SL, "flush")
    /\ ret' = [ret EXCEPT ![SL] = "timer"]
    /\ UNCHANGED <<replayVars, frameVars, inFlightBufferLock, payloads,
                   idPayloadObj, itemBuffer, timeoutTimer, disconnects,
                   netVars, detectorVars, closeVars>>

\* ------------------------------------------------------ flushBufferToSocket
\* lines 271-273: nothing to write.
FlushNothing(t) ==
    /\ pc[t] = "flush"
    /\ BufLen(inFlightByteBuffer) \in {0, HeaderBytes}
    /\ Return(t)
    /\ UNCHANGED <<replayVars, frameVars, inFlightBufferLock, payloads,
                   idPayloadObj, itemBuffer, disconnects, netVars,
                   detectorVars, closeVars>>

\* Mutant: the frame length counts the header too.
PatchFrameLength_WithHeader(buf) ==
    [buf EXCEPT ![1].frameLength = BufLen(buf)]

\* The buffer with the frame length written into bytes 1..4 of its header.
PatchFrameLength(buf) ==
    [buf EXCEPT ![1].frameLength = BufLen(buf) - HeaderBytes]

\* lines 275-284: the frame length is written into the buffer's header.
FlushPatch(t) ==
    /\ pc[t] = "flush"
    /\ BufLen(inFlightByteBuffer) \notin {0, HeaderBytes}
    /\ inFlightByteBuffer' = PatchFrameLength(inFlightByteBuffer)
    /\ Goto(t, "write")
    /\ UNCHANGED <<replayVars, inFlightId, inFlightBufferLock, payloads,
                   idPayloadObj, itemBuffer, timeoutTimer, ret, disconnects,
                   netVars, detectorVars, closeVars>>

\* line 287: socket.Write succeeds.
FlushWrite(t) ==
    /\ pc[t] = "write"
    /\ ~socketClosed
    /\ ~transportFailed
    /\ wire' = Append(wire, inFlightByteBuffer)
    /\ Return(t)
    /\ UNCHANGED <<replayVars, frameVars, inFlightBufferLock, payloads,
                   idPayloadObj, itemBuffer, disconnects, socketClosed,
                   transportFailed, peerReply, detectorVars, closeVars>>

\* Mutant: a failed write returns and the socket is left open.
FlushWriteError_NoClose(t) ==
    /\ pc[t] = "write"
    /\ socketClosed \/ transportFailed
    /\ Return(t)
    /\ UNCHANGED <<replayVars, frameVars, inFlightBufferLock, payloads,
                   idPayloadObj, itemBuffer, disconnects, netVars,
                   detectorVars, closeVars>>

\* lines 287-291: socket.Write fails; the deferred noFlushDisconnect closes
\* the socket.
FlushWriteError(t) ==
    /\ pc[t] = "write"
    /\ socketClosed \/ transportFailed
    /\ socketClosed' = TRUE
    /\ Return(t)
    /\ UNCHANGED <<replayVars, frameVars, inFlightBufferLock, payloads,
                   idPayloadObj, itemBuffer, disconnects, transportFailed,
                   peerReply, wire, detectorVars, closeVars>>

\* --------------------------------------------------------------- Disconnect
\* lines 98-99: Disconnect takes the lock and calls flushBufferToSocket.
DisconnectLock(t) ==
    /\ inFlightBufferLock = "free"
    /\ inFlightBufferLock' = t
    /\ Goto(t, "flush")
    /\ ret' = [ret EXCEPT ![t] = "dc_unlock"]
    /\ UNCHANGED <<replayVars, frameVars, payloads, idPayloadObj, itemBuffer,
                   timeoutTimer, netVars, detectorVars, closeVars>>

\* The caller calls Disconnect().
CallerDisconnect ==
    /\ pc["caller"] = "idle"
    /\ disconnects < MaxDisconnects
    /\ disconnects' = disconnects + 1
    /\ DisconnectLock("caller")

\* Mutant: bufferPayload returns on the encoding error without calling
\* Disconnect().
BufferPayloadDisconnect_Returns ==
    /\ pc[SL] = "dc_lock"
    /\ Goto(SL, "select")
    /\ idPayloadObj' = None
    /\ timeoutTimer' = "short"
    /\ UNCHANGED <<replayVars, frameVars, inFlightBufferLock, payloads,
                   itemBuffer, ret, disconnects, netVars, detectorVars,
                   closeVars>>

\* The Disconnect() that bufferPayload calls (lines 212, 218).
BufferPayloadDisconnect ==
    /\ pc[SL] = "dc_lock"
    /\ DisconnectLock(SL)
    /\ UNCHANGED disconnects

\* line 100
DisconnectUnlock(t) ==
    /\ pc[t] = "dc_unlock"
    /\ inFlightBufferLock' = "free"
    /\ Goto(t, "dc_close")
    /\ UNCHANGED <<replayVars, frameVars, payloads, idPayloadObj, itemBuffer,
                   timeoutTimer, ret, disconnects, netVars, detectorVars,
                   closeVars>>

\* Mutant: Disconnect returns without closing the socket.
DisconnectClose_NoClose(t) ==
    /\ pc[t] = "dc_close"
    /\ IF t = SL
       THEN /\ Goto(t, "select")
            /\ timeoutTimer' = "short"
            /\ idPayloadObj' = None
       ELSE /\ Goto(t, "idle")
            /\ UNCHANGED <<timeoutTimer, idPayloadObj>>
    /\ UNCHANGED <<replayVars, frameVars, inFlightBufferLock, payloads,
                   itemBuffer, ret, disconnects, netVars, detectorVars,
                   closeVars>>

\* lines 101, 105: the socket is closed.  In sendListener, bufferPayload then
\* returns and line 162 arms the short timeout.
DisconnectClose(t) ==
    /\ pc[t] = "dc_close"
    /\ socketClosed' = TRUE
    /\ IF t = SL
       THEN /\ Goto(t, "select")
            /\ timeoutTimer' = "short"
            /\ idPayloadObj' = None
       ELSE /\ Goto(t, "idle")
            /\ UNCHANGED <<timeoutTimer, idPayloadObj>>
    /\ UNCHANGED <<replayVars, frameVars, inFlightBufferLock, payloads,
                   itemBuffer, ret, disconnects, transportFailed, peerReply,
                   wire, detectorVars, closeVars>>

\* ------------------------------------------------------------ the transport
\* The stream breaks (the peer closes it, or an I/O error).
TransportFails ==
    /\ ~transportFailed
    /\ ~socketClosed
    /\ transportFailed' = TRUE
    /\ UNCHANGED <<replayVars, frameVars, inFlightBufferLock, payloads,
                   idPayloadObj, itemBuffer, timeoutTimer, pc, ret,
                   disconnects, socketClosed, peerReply, wire, detectorVars,
                   closeVars>>

\* ------------------------------------------------------------ closeListener
\* The AppleError made from a response read without error (lines 119-124).
ResponseError(reply) ==
    [MessageId |-> reply.notificationId,
     ErrorCode |-> reply.errorCode,
     ErrorString |-> APPLE_PUSH_RESPONSES(reply.errorCode)]

\* The AppleError made when the read fails (lines 113-117).
ShutdownError ==
    [MessageId |-> 0, ErrorCode |-> ShutdownCode, ErrorString |-> "read error"]

\* lines 110, 118-124: the peer writes a response and the read returns it.
ReadResponse(reply) ==
    /\ clPc = "read"
    /\ ~socketClosed
    /\ ~transportFailed
    /\ peerReply' = <<reply>>
    /\ errCloseChannel' = <<ResponseError(reply)>>
    /\ clPc' = "send"
    /\ UNCHANGED <<replayVars, frameVars, inFlightBufferLock, payloads,
                   idPayloadObj, itemBuffer, timeoutTimer, pc, ret,
                   disconnects, socketClosed, transportFailed, wire,
                   closeVars>>

\* lines 110-117: the read fails.
ReadFailure ==
    /\ clPc = "read"
    /\ socketClosed \/ transportFailed
    /\ errCloseChannel' = <<ShutdownError>>
    /\ clPc' = "send"
    /\ UNCHANGED <<replayVars, frameVars, inFlightBufferLock, payloads,
                   idPayloadObj, itemBuffer, timeoutTimer, pc, ret,
                   disconnects, netVars, closeVars>>

\* ------------------------------------------------- the end of sendListener
\* lines 169-197: the AppleError is received from errCloseChannel, the loop
\* ends, the unsent payloads are gathered and the goroutine that sends the
\* ConnectionClose is started.
ReceiveError ==
    /\ pc[SL] = "select"
    /\ clPc = "send"
    /\ appleError' = errCloseChannel
    /\ clPc' = "done"
    /\ connectionClose' =
           <<MakeConnectionClose(inFlightPayloadBuffer, errCloseChannel[1])>>
    /\ closerPc' = "send"
    /\ Goto(SL, "finished")
    /\ UNCHANGED <<replayVars, frameVars, inFlightBufferLock, payloads,
                   idPayloadObj, itemBuffer, timeoutTimer, ret, disconnects,
                   netVars, errCloseChannel, delivered>>

\* line 189: the caller receives the ConnectionClose from CloseChannel.
DeliverConnectionClose ==
    /\ closerPc = "send"
    /\ delivered' = Append(delivered, connectionClose[1])
    /\ closerPc' = "close"
    /\ UNCHANGED <<replayVars, frameVars, inFlightBufferLock, payloads,
                   idPayloadObj, itemBuffer, timeoutTimer, pc, ret,
                   disconnects, netVars, detectorVars, appleError,
                   connectionClose>>

\* Mutant: CloseChannel is closed without waiting for the send to complete.
CloseCloseChannel_BeforeSend ==
    /\ closerPc \in {"send", "close"}
    /\ closerPc' = "done"
    /\ UNCHANGED <<replayVars, frameVars, inFlightBufferLock, payloads,
                   idPayloadObj, itemBuffer, timeoutTimer, pc, ret,
                   disconnects, netVars, detectorVars, appleError,
                   connectionClose, delivered>>

\* line 196
CloseCloseChannel ==
    /\ closerPc = "close"
    /\ closerPc' = "done"
    /\ UNCHANGED <<replayVars, frameVars, inFlightBufferLock, payloads,
                   idPayloadObj, itemBuffer, timeoutTimer, pc, ret,
                   disconnects, netVars, detectorVars, appleError,
                   connectionClose, delivered>>

\* ---------------------------------------------------------- specifications
Next ==
    \/ \E p \in PayloadInputs : Submit(p)
    \/ \E p \in PayloadInputs : SubmitTokenError(p)
    \/ \E p \in PayloadInputs : SubmitMarshalError(p)
    \/ ReceiveNil
    \/ BufferPayloadDisconnect
    \/ BufferPayloadOverflow
    \/ BufferPayloadFits
    \/ BufferPayloadReset
    \/ BufferPayloadAppend
    \/ TimerFire
    \/ \E t \in Tasks : FlushNothing(t)
    \/ \E t \in Tasks : FlushPatch(t)
    \/ \E t \in Tasks : FlushWrite(t)
    \/ \E t \in Tasks : FlushWriteError(t)
    \/ CallerDisconnect
    \/ \E t \in Tasks : DisconnectUnlock(t)
    \/ \E t \in Tasks : DisconnectClose(t)
    \/ \E reply \in PeerResponses : ReadResponse(reply)
    \/ TransportFails
    \/ ReadFailure
    \/ ReceiveError
    \/ DeliverConnectionClose
    \/ CloseCloseChannel

Spec == Init /\ [][Next]_vars

\* The program with a caller that sends up to MaxReplaySubmit payloads that
\* encode and fit one frame, and a peer that may answer for any of their ids;
\* every capacity up to MaxReplaySubmit is drawn.
ReplayInit ==
    /\ inFlightPayloadBufferSize \in 0 .. MaxReplaySubmit
    /\ Fresh

ReplayResponses ==
    { [command |-> 8, errorCode |-> 8, notificationId |-> id] :
          id \in 0 .. MaxReplaySubmit }

\* lines 140-157, 209-234 for the next payload received.
ReplaySubmission ==
    SubmitWithin(Payload(2 * TokenBytes, TRUE, 20, 0, 10), MaxReplaySubmit)

ReplayNext ==
    \/ ReplaySubmission
    \/ ReceiveNil
    \/ BufferPayloadFits
    \/ BufferPayloadAppend
    \/ TimerFire
    \/ \E t \in Tasks : FlushNothing(t)
    \/ \E t \in Tasks : FlushPatch(t)
    \/ \E t \in Tasks : FlushWrite(t)
    \/ \E t \in Tasks : FlushWriteError(t)
    \/ CallerDisconnect
    \/ \E t \in Tasks : DisconnectUnlock(t)
    \/ \E t \in Tasks : DisconnectClose(t)
    \/ \E reply \in ReplayResponses : ReadResponse(reply)
    \/ TransportFails
    \/ ReadFailure
    \/ ReceiveError
    \/ DeliverConnectionClose
    \/ CloseCloseChannel

ReplaySpec == ReplayInit /\ [][ReplayNext]_vars


\* ------------------------------------------------------------- properties
\* The number of submissions sendListener accepted.
Accepted == Len(payloads)

\* The ids assigned were 1 .. Accepted (the counter did not wrap).
IdsInOrder == payloadIdCounter = Accepted

\* The payloads retained in the replay buffer, oldest first.
RetainedOldestFirst ==
    [i \in 1 .. Len(inFlightPayloadBuffer) |->
        inFlightPayloadBuffer[Len(inFlightPayloadBuffer) + 1 - i].Payload]

\* An entry was evicted from the replay buffer.
EvictionHappened == Accepted > Len(inFlightPayloadBuffer)

\* Id k was assigned and its entry is no longer in the replay buffer.
EvictedId(k) ==
    /\ k \in 1 .. Accepted
    /\ \A i \in 1 .. Len(inFlightPayloadBuffer) :
           inFlightPayloadBuffer[i].Id # k

\* The payloads with ids from .. to, in submission order.
IdRange(from, to) == [i \in 1 .. (to - from + 1) |-> from + i - 1]

\* C1: with at most capacity submissions accepted (ids 1..N) and a peer
\* response for id k in 1..N, the ConnectionClose delivered has the payload
\* with id k as ErrorPayload, exactly the payloads with ids k+1..N, oldest
\* first, as UnsentPayloads, and the overflow flag false.
C1_PartitionAtReportedId ==
    \A i \in 1 .. Len(delivered) :
        LET cc == delivered[i]
            k == cc.Error.MessageId
        IN (/\ Accepted <= inFlightPayloadBufferSize
            /\ IdsInOrder
            /\ peerReply # None
            /\ k \in 1 .. Accepted)
           => /\ cc.ErrorPayload = <<k>>
              /\ cc.UnsentPayloads = IdRange(k + 1, Accepted)
              /\ cc.UnsentPayloadBufferOverflow = FALSE

C1_Witness ==
    /\ Len(delivered) = 1
    /\ Accepted = 3
    /\ Accepted <= inFlightPayloadBufferSize
    /\ peerReply # None
    /\ delivered[1].Error.MessageId = 1
    /\ delivered[1].ErrorPayload = <<1>>
    /\ delivered[1].UnsentPayloads = <<2, 3>>
    /\ delivered[1].UnsentPayloadBufferOverflow = FALSE

\* C2: the overflow flag of the ConnectionClose delivered is true only if an
\* entry was evicted from the replay buffer.
C2_OverflowOnlyAfterEviction ==
    \A i \in 1 .. Len(delivered) :
        delivered[i].UnsentPayloadBufferOverflow => EvictionHappened

\* C3: with more submissions accepted than the capacity and a peer response
\* for an id whose entry was evicted, the ConnectionClose delivered has the
\* overflow flag true and no ErrorPayload.
C3_EvictedIdSetsOverflow ==
    \A i \in 1 .. Len(delivered) :
        LET cc == delivered[i]
        IN (/\ Accepted > inFlightPayloadBufferSize
            /\ IdsInOrder
            /\ peerReply # None
            /\ EvictedId(cc.Error.MessageId))
           => /\ cc.UnsentPayloadBufferOverflow = TRUE
              /\ cc.ErrorPayload = None

\* The read of closeListener failed: it returned, and not with a response.
ReadFailed == clPc # "read" /\ peerReply = None

\* C4: when the read fails the AppleError has ErrorCode 10 and MessageId 0,
\* and the ConnectionClose made from it has no ErrorPayload and every
\* payload retained in the replay buffer, oldest first, as UnsentPayloads.
C4_ReadFailureIsShutdown ==
    ReadFailed
    => /\ errCloseChannel[1].ErrorCode = 10
       /\ errCloseChannel[1].MessageId = 0
       /\ connectionClose # None
          => /\ connectionClose[1].Error = errCloseChannel[1]
             /\ connectionClose[1].ErrorPayload = None
             /\ connectionClose[1].UnsentPayloads = RetainedOldestFirst

C4_Witness ==
    /\ ReadFailed
    /\ Len(delivered) = 1
    /\ Len(inFlightPayloadBuffer) = 2
    /\ delivered[1].UnsentPayloads = <<1, 2>>

\* C5: at most one ConnectionClose is ever received from CloseChannel, and
\* CloseChannel is closed only once that value has been received, so that
\* nothing is sent after the close.
C5_OneCloseThenClosed ==
    /\ Len(delivered) <= 1
    /\ closerPc = "done" => Len(delivered) = 1
    /\ closerPc \in {"none", "send"} => delivered = <<>>

C5_Witness == closerPc = "done" /\ Len(delivered) = 1

\* C6: no worker stays blocked on the error handoff: while closeListener is
\* sending its AppleError on errCloseChannel, sendListener has not returned
\* and can still receive it.
C6_ErrorHandoffHasReceiver == ~(clPc = "send" /\ pc[SL] = "returned")

\* A payload that bufferPayload fails to encode.
EncodingFails(p) ==
    \/ DecodeString(p.Token).err
    \/ marshalAlertBodyPayload(p, MaxPayloadBytes).err

\* Nothing but the caller's Disconnect() can have ended the connection: no
\* peer response, no failure of the stream, no payload that fails to encode.
OnlyDisconnectTerminates ==
    /\ peerReply = None
    /\ ~transportFailed
    /\ \A i \in 1 .. Len(payloads) : ~EncodingFails(payloads[i])

\* C7 as claimed: when only the caller's Disconnect() ends the connection,
\* nothing is ever received from CloseChannel.
C7_DisconnectDeliversNothing ==
    OnlyDisconnectTerminates => delivered = <<>>

\* C7 as amended: the caller's Disconnect() flushes while holding the lock
\* and has closed the socket when it returns; when only Disconnect() ends
\* the connection, a ConnectionClose is received only after the socket was
\* closed by it, and carries ErrorCode 10, MessageId 0 and no ErrorPayload.
C7_DisconnectYieldsShutdownClose ==
    /\ pc["caller"] \in {"flush", "write", "dc_unlock"}
       => inFlightBufferLock = "caller"
    /\ (disconnects > 0 /\ pc["caller"] = "idle") => socketClosed
    /\ OnlyDisconnectTerminates
       => \A i \in 1 .. Len(delivered) :
              /\ disconnects > 0
              /\ socketClosed
              /\ delivered[i].Error.ErrorCode = 10
              /\ delivered[i].Error.MessageId = 0
              /\ delivered[i].ErrorPayload = None

C7_Witness ==
    /\ OnlyDisconnectTerminates
    /\ disconnects = 1
    /\ pc["caller"] = "idle"
    /\ Accepted > 0
    /\ wire # <<>>
    /\ Len(delivered) = 1

\* A task is inside flushBufferToSocket.
InFlush(t) == pc[t] \in {"flush", "write"}

\* C8: a task inside flushBufferToSocket holds inFlightBufferLock, so two
\* tasks are never inside it at once.
C8_FlushHoldsLock ==
    /\ \A t \in Tasks : InFlush(t) => inFlightBufferLock = t
    /\ ~(InFlush(SL) /\ InFlush("caller"))

\* C9: the frame buffer never holds, and no write to the socket carries,
\* more than TCP_FRAME_MAX bytes, header included.
C9_FrameWithinMax ==
    /\ BufLen(inFlightByteBuffer) <= TCP_FRAME_MAX
    /\ \A i \in 1 .. Len(wire) : BufLen(wire[i]) <= TCP_FRAME_MAX

\* C10: the itemLength field of every item encoded equals
\* 32 + len(payloadBytes) + 4 + 4 + 1 and the number of bytes written for
\* the item after its 3-byte prefix.
C10_ItemLengthMatchesBytes ==
    \A i \in 1 .. Len(itemBuffer) :
        /\ itemBuffer[i].itemLength = 32 + itemBuffer[i].payloadBytes + 4 + 4 + 1
        /\ itemBuffer[i].itemLength = FieldLen(itemBuffer[i]) - 3


\* ------------------------------------------------------ the replay tracker
\* The replay tracker on its own, run past the wrap of payloadIdCounter:
\* sendListener serving payloads that encode and its timer, run past the wrap
\* of the id counter: the caller sends up to MaxIdSubmit payloads and never
\* calls Disconnect(), the peer is silent and the transport healthy.  Every
\* capacity up to the number of ids is drawn.
MaxIdSubmit == IdModulus + MaxSubmit

IdInit ==
    /\ inFlightPayloadBufferSize \in 0 .. IdModulus
    /\ Fresh

\* lines 140-157, 209-234 for the next payload received.
TrackSubmission ==
    SubmitWithin(Payload(2 * TokenBytes, TRUE, 20, 0, 10), MaxIdSubmit)

IdNext ==
    \/ TrackSubmission
    \/ BufferPayloadFits
    \/ BufferPayloadAppend
    \/ TimerFire
    \/ FlushNothing(SL)
    \/ FlushPatch(SL)
    \/ FlushWrite(SL)

IdSpec == IdInit /\ [][IdNext]_vars

\* The id of the n-th submission: 1, 2, ..., the largest id, then 1 again.
NthId(n) == ((n - 1) % (IdModulus - 1)) + 1

\* C11: the ids assigned are never 0: the first is 1, each later one is the
\* one before plus one, and the largest id is followed by 1; so with a
\* capacity below the number of non-zero ids no two entries retained in the
\* replay buffer carry the same id.
C11_IdsSuccessiveNonZero ==
    /\ Accepted > 0 => payloadIdCounter = NthId(Accepted)
    /\ \A i \in 1 .. Len(inFlightPayloadBuffer) :
           /\ inFlightPayloadBuffer[i].Id # 0
           /\ inFlightPayloadBuffer[i].Id = NthId(Accepted + 1 - i)
    /\ inFlightPayloadBufferSize < IdModulus - 1
       => \A i, j \in 1 .. Len(inFlightPayloadBuffer) :
              i # j => inFlightPayloadBuffer[i].Id # inFlightPayloadBuffer[j].Id

\* The counter has wrapped, and the buffer holds ids from both sides of it.
C11_Witness ==
    /\ Accepted = IdModulus
    /\ pc[SL] = "select"
    /\ Len(inFlightByteBuffer) = IdModulus + 1
    /\ payloadIdCounter = 1
    /\ inFlightPayloadBufferSize = 2
    /\ inFlightPayloadBuffer[1].Id = 1
    /\ inFlightPayloadBuffer[2].Id = IdModulus - 1


\* The error codes APPLE_PUSH_RESPONSES lists.
ListedCodes == {0, 1, 2, 3, 4, 5, 6, 7, 8, 10, 255}

\* C12: the AppleError made from a response read without error carries the
\* peer's notification id; it carries the code received and its name when
\* the table lists the code, and code 255 with "UNKNOWN" otherwise.
C12_ResponseCodeNormalized ==
    (peerReply # None /\ clPc # "read")
    => LET reply == peerReply[1]
           err == errCloseChannel[1]
       IN /\ err.MessageId = reply.notificationId
          /\ IF reply.errorCode \in ListedCodes
             THEN /\ err.ErrorCode = reply.errorCode
                  /\ err.ErrorString = APPLE_PUSH_RESPONSES(reply.errorCode)
             ELSE /\ err.ErrorCode = 255
                  /\ err.ErrorString = "UNKNOWN"

\* C13: bufferPayload leaves the caller's Payload as it was submitted: after
\* a payload is received and encoded, the object the replay buffer points to
\* has the Token, body, ExpirationTime and Priority it was submitted with.
C13_PayloadUnchanged ==
    [][\A p \in PayloadInputs :
           Submit(p) => payloads'[Len(payloads')] = p]_vars


\* The items of a byte buffer.
Items(buf) == {buf[i] : i \in {j \in 1 .. Len(buf) : buf[j].kind = "item"}}

\* The items written to the socket.
WrittenItems == UNION {Items(wire[w]) : w \in 1 .. Len(wire)}

\* bufferPayload failed to encode a payload and the Disconnect() it called
\* has returned.
EncodingFailureHandled ==
    \E i \in 1 .. Len(payloads) :
        /\ EncodingFails(payloads[i])
        /\ i < Len(payloads) \/ idPayloadObj = None

\* What an encoding failure does to the buffers, the lock and the socket: no
\* item of the failing payload is in itemBuffer, in the frame buffer or on
\* the wire; the flush of the Disconnect() runs under the lock and writes the
\* items buffered before; the socket is closed when it has returned.
EncodingFailureAborts ==
    /\ \A item \in Items(inFlightByteBuffer) \cup Items(itemBuffer)
                   \cup WrittenItems :
           ~EncodingFails(payloads[item.Id])
    /\ (InFlush(SL) /\ ret[SL] = "dc_unlock") => inFlightBufferLock = SL
    /\ EncodingFailureHandled => socketClosed
    /\ ( /\ EncodingFailureHandled
         /\ EncodingFails(payloads[Len(payloads)])
         /\ ~EncodingFails(payloads[1])
         /\ Items(inFlightByteBuffer) # {}
         /\ ~transportFailed
         /\ disconnects = 0 )
       => Items(inFlightByteBuffer) \subseteq WrittenItems

\* C14 as claimed: an encoding failure aborts the item, flushes under the
\* lock what was buffered and closes the socket, and the AppleError the
\* connection then ends with is the read failure's (code 10, id 0).
C14_EncodingFailureEndsInShutdown ==
    /\ EncodingFailureAborts
    /\ (EncodingFailureHandled /\ appleError # None)
       => /\ appleError[1].ErrorCode = ShutdownCode
          /\ appleError[1].MessageId = 0

\* C14, amended: as claimed, but the AppleError is the read failure's only
\* when closeListener had not read a response of the peer before the socket
\* was closed; otherwise it is the one made from that response.
C14_EncodingFailureClosesSocket ==
    /\ EncodingFailureAborts
    /\ (EncodingFailureHandled /\ appleError # None)
       => IF peerReply = None
          THEN appleError[1] = ShutdownError
          ELSE appleError[1] = ResponseError(peerReply[1])

C14_Witness ==
    /\ Len(payloads) = 2
    /\ ~EncodingFails(payloads[1])
    /\ DecodeString(payloads[2].Token).err
    /\ Len(wire) = 1
    /\ Items(inFlightByteBuffer) \subseteq WrittenItems
    /\ disconnects = 0
    /\ socketClosed
    /\ peerReply = None
    /\ appleError = <<ShutdownError>>


\* The socket is closed and nothing but the deferred noFlushDisconnect of a
\* failed write can have closed it: Disconnect() was not called by the caller
\* and no payload failed to encode.
WriteFailureClosed ==
    /\ socketClosed
    /\ disconnects = 0
    /\ \A i \in 1 .. Len(payloads) : ~EncodingFails(payloads[i])

\* C15 as claimed: after a failed socket.Write in flushBufferToSocket has
\* closed the socket, the AppleError sendListener receives, and the one of
\* the ConnectionClose delivered, is the read failure's (code 10, id 0).
C15_WriteFailureEndsInShutdown ==
    WriteFailureClosed
    => /\ appleError # None => appleError = <<ShutdownError>>
       /\ \A i \in 1 .. Len(delivered) : delivered[i].Error = ShutdownError

\* C15, amended: a failed socket.Write in flushBufferToSocket closes the
\* socket and returns, nothing written; nothing is written to a closed socket
\* afterwards; a read that closeListener has pending then fails; and the one
\* AppleError sendListener receives is the read failure's (code 10, id 0)
\* when no response of the peer had been read before, and the one made from
\* that response otherwise.
C15_WriteFailureClosesSocket ==
    /\ [][\A t \in Tasks :
              FlushWriteError(t)
              => /\ socketClosed'
                 /\ wire' = wire
                 /\ ~InFlush(t)']_vars
    /\ [][socketClosed => (socketClosed' /\ wire' = wire)]_vars
    /\ [][(socketClosed /\ clPc = "read" /\ clPc' # "read")
          => errCloseChannel' = <<ShutdownError>>]_vars
    /\ [](WriteFailureClosed
          => /\ transportFailed
             /\ (peerReply = None /\ clPc # "read")
                => errCloseChannel = <<ShutdownError>>
             /\ appleError # None
                => IF peerReply = None
                   THEN appleError = <<ShutdownError>>
                   ELSE appleError = <<ResponseError(peerReply[1])>>
             /\ Len(delivered) <= 1
             /\ \A i \in 1 .. Len(delivered) :
                    delivered[i].Error = appleError[1])

C15_Witness ==
    /\ WriteFailureClosed
    /\ Items(inFlightByteBuffer) # {}
    /\ wire = <<>>
    /\ peerReply = None
    /\ appleError = <<ShutdownError>>
    /\ Len(delivered) = 1


\* C16: the bytes of a notification are written to the socket at most once:
\* no two writes carry an item of the same payload.
C16_ItemWrittenAtMostOnce ==
    \A v, w \in 1 .. Len(wire) :
        v # w => \A a \in Items(wire[v]), b \in Items(wire[w]) : a.Id # b.Id

\* The items appended to the frame buffer that no write to the socket carried.
UnwrittenItems ==
    {item \in Items(inFlightByteBuffer) :
         \A written \in WrittenItems : written.Id # item.Id}

\* C17, the safety part of it: while the socket accepts writes and no
\* AppleError has been received by sendListener, an item that is in the frame
\* buffer and was not written has a task that will flush it: sendListener has
\* not returned, or a Disconnect() is about to flush.
C17_UnwrittenItemHasFlusher ==
    ( /\ UnwrittenItems # {}
      /\ ~socketClosed
      /\ ~transportFailed
      /\ appleError = None )
    => \/ pc[SL] # "returned"
       \/ InFlush("caller")


Min(a, b) == IF a < b THEN a ELSE b

\* C18: every buffer written to the socket has items after its header, and
\* begins with the frame type 2 and a frame length that is the number of
\* bytes written less the 5 of the header; a flush of an empty or
\* header-only buffer writes nothing.
C18_WrittenFrameHeader ==
    /\ \A w \in 1 .. Len(wire) :
           /\ BufLen(wire[w]) > HeaderBytes
           /\ wire[w][1].kind = "hdr"
           /\ wire[w][1].frameType = 2
           /\ wire[w][1].frameLength = BufLen(wire[w]) - HeaderBytes
           /\ wire[w][1].frameLength = BufLen(Tail(wire[w]))
           /\ \A i \in 2 .. Len(wire[w]) : wire[w][i].kind = "item"
    /\ \A t \in Tasks :
           pc[t] = "write" => BufLen(inFlightByteBuffer) > HeaderBytes

C18_Witness ==
    /\ Len(wire) = 1
    /\ Len(wire[1]) = 3
    /\ wire[1][1].frameLength = 2 * wire[1][2].itemLength + 6

\* C19: after n submissions with capacity C the replay buffer holds the
\* min(n, C) payloads submitted last, the newest first.
C19_ReplayHoldsLatest ==
    /\ Len(inFlightPayloadBuffer) = Min(Accepted, inFlightPayloadBufferSize)
    /\ \A i \in 1 .. Len(inFlightPayloadBuffer) :
           inFlightPayloadBuffer[i].Payload = Accepted + 1 - i

C19_Witness ==
    /\ inFlightPayloadBufferSize = 1
    /\ Accepted = 2
    /\ inFlightPayloadBuffer = <<[Payload |-> 2, Id |-> 2]>>

\* C20: a payload that bufferPayload failed to encode is not among the
\* UnsentPayloads of a ConnectionClose.
C20_FailedPayloadNotReportedUnsent ==
    \A c \in 1 .. Len(connectionClose) :
        \A u \in 1 .. Len(connectionClose[c].UnsentPayloads) :
            ~EncodingFails(payloads[connectionClose[c].UnsentPayloads[u]])

====
